---- MODULE Spec2Model ----
(***************************************************************************)
(* Model of nft_mirror/oracle_server/src/airdrop/airdropService.ts:        *)
(* AirdropService.claim and the helpers it calls.  Every claim() call is   *)
(* one process; the only points where two calls interleave are the two     *)
(* awaits on the chain connection (bulkFetchObjects, callMoveFunction).    *)
(*                                                                         *)
(* Strings that the code only copies are TLA+ strings; source_token_id,    *)
(* which the code converts with unary plus, is a tuple of characters.      *)
(***************************************************************************)
EXTENDS Integers, Sequences, FiniteSets, TLC

\* ------------------------------------------------------------------ bounds
NumClaims == 2
MaxTokenLen == 2
MaxObjects == 3
MaxCreated == 2

\* --------------------------------------------------------- program constants
DEFAULT_GAS_BUDGET == 2000

GAS_COIN_TYPE == "0x2::Coin::Coin<0x2::GAS::GAS>"

HARDCODED_LINK ==
    "https://djgd7fpxio1yh.cloudfront.net/objects/7bc832ec31709638cd8d9323e90edf332gff4389"

name == "BoredApeYachtClub"

tokenUri == "ipfs://abc"

\* process.env, read-only configuration
ORACLE_ADDRESS == "oracle_account"

ORACLE_CONTRACT_ENTRY_FUNCTION == "claim"

ORACLE_CONTRACT_ADMIN_IDENTIFIER == "Oracle"

getPackageAndModule == <<"0x2", "CrossChainAirdrop">>

Claims == 1..NumClaims

ClaimFields ==
    {"source_chain", "source_contract_address", "source_token_id",
     "source_owner_address", "destination_sui_address"}

\* ------------------------------------------------------------ JS numbers
NaN == [isNaN |-> TRUE, value |-> 0]

Num(n) == [isNaN |-> FALSE, value |-> n]

Digits == {"0", "1", "2", "3", "4", "5", "6", "7", "8", "9"}

DigitValue(ch) ==
    CASE ch = "0" -> 0 [] ch = "1" -> 1 [] ch = "2" -> 2 [] ch = "3" -> 3
      [] ch = "4" -> 4 [] ch = "5" -> 5 [] ch = "6" -> 6 [] ch = "7" -> 7
      [] ch = "8" -> 8 [] ch = "9" -> 9

RECURSIVE TrimLeft(_)
TrimLeft(s) == IF s # <<>> /\ Head(s) = " " THEN TrimLeft(Tail(s)) ELSE s

RECURSIVE TrimRight(_)
TrimRight(s) ==
    IF s # <<>> /\ s[Len(s)] = " " THEN TrimRight(SubSeq(s, 1, Len(s) - 1)) ELSE s

RECURSIVE DecimalValue(_)
DecimalValue(s) ==
    IF s = <<>> THEN 0
    ELSE 10 * DecimalValue(SubSeq(s, 1, Len(s) - 1)) + DigitValue(s[Len(s)])

AllDigits(s) == s # <<>> /\ \A i \in 1..Len(s) : s[i] \in Digits

\* Unary plus on a string (ECMAScript StringToNumber) for the characters of
\* TokenChars: white space is trimmed, the empty string is 0, an optionally
\* signed run of decimal digits is its value, everything else is NaN.
ToNumber(s) ==
    LET t == TrimRight(TrimLeft(s)) IN
    IF t = <<>> THEN Num(0)
    ELSE IF AllDigits(t) THEN Num(DecimalValue(t))
    ELSE IF Head(t) = "-" /\ AllDigits(Tail(t)) THEN Num(0 - DecimalValue(Tail(t)))
    ELSE NaN

\* ------------------------------------------------------------- JS values
JSNull == [type |-> "null"]

JSUndefined == [type |-> "undefined"]

JSObject(m) == [type |-> "object", members |-> m]

\* arg[key] / arg.key on a non-nullish value
HasMember(arg, key) == arg.type = "object" /\ key \in DOMAIN arg.members

EmptyString(key) == IF key = "source_token_id" THEN <<>> ELSE ""

\* truthiness of arg.key: undefined and the empty string are falsy
Truthy(arg, key) == HasMember(arg, key) /\ arg.members[key] # EmptyString(key)

IsNullish(v) == v.type \in {"null", "undefined"}

\* ---------------------------------------------------------------- errors
NoError == [kind |-> "none", message |-> ""]

SyntaxError == [kind |-> "SyntaxError", message |-> "Unexpected token in JSON"]

TypeError == [kind |-> "TypeError", message |-> "Cannot read properties of undefined"]

ValidateError == [kind |-> "ValidateError", message |-> "Wrong format for wallet message"]

OracleCountError == [kind |-> "Error", message |-> "Unexpected number of oracle object"]

CreatedCountError == [kind |-> "Error", message |-> "Unexpected number of objects created"]

\* whatever the Connection rejects with (network, gateway); opaque to the service
ConnectionError == [kind |-> "ConnectionError", message |-> "gateway request failed"]

TimeoutError == [kind |-> "TimeoutError", message |-> "gateway request timed out"]

ConnectionErrors == {ConnectionError, TimeoutError}

\* ------------------------------------------------------- parsing (pure)
\* JSON.parse(wallet_message): a syntax error, or the value the text denotes
JSONParse(wallet_message) ==
    IF wallet_message.wellFormed
    THEN [ok |-> TRUE, value |-> wallet_message.value, error |-> NoError]
    ELSE [ok |-> FALSE, value |-> JSUndefined, error |-> SyntaxError]

\* data['message']
MessageOf(data) == IF HasMember(data, "message") THEN data.members["message"] ELSE JSUndefined

isAirdropClaimInfo(arg) ==
    /\ Truthy(arg, "source_chain")
    /\ Truthy(arg, "source_contract_address")
    /\ Truthy(arg, "source_token_id")
    /\ Truthy(arg, "source_owner_address")
    /\ Truthy(arg, "destination_sui_address")

\* parseClaimInfo(data): the claim info, or the error thrown.  Reading a
\* property of null or undefined throws a TypeError before any validation.
parseClaimInfo(data) ==
    IF IsNullish(data) THEN [ok |-> FALSE, value |-> JSUndefined, error |-> TypeError]
    ELSE IF IsNullish(MessageOf(data))
         THEN [ok |-> FALSE, value |-> JSUndefined, error |-> TypeError]
    ELSE IF isAirdropClaimInfo(MessageOf(data))
         THEN [ok |-> TRUE, value |-> MessageOf(data), error |-> NoError]
    ELSE [ok |-> FALSE, value |-> JSUndefined, error |-> ValidateError]

\* ------------------------------------------------- object resolver (pure)
formatObjectId(id) == "0x" \o id

oracle_object_identifier ==
    getPackageAndModule[1] \o "::" \o getPackageAndModule[2] \o "::"
        \o ORACLE_CONTRACT_ADMIN_IDENTIFIER

IsGasCoin(o) == o.objType = GAS_COIN_TYPE

IsOracle(o) == o.objType = oracle_object_identifier

\* variant: the oracle check only rejects an empty match
getGasAndOracleNonEmpty(objs) ==
    LET gas == SelectSeq(objs, IsGasCoin)
        oracle == SelectSeq(objs, IsOracle)
    IN  IF gas = <<>> THEN [ok |-> FALSE, value |-> <<>>, error |-> TypeError]
        ELSE IF Len(oracle) = 0
             THEN [ok |-> FALSE, value |-> <<>>, error |-> OracleCountError]
        ELSE [ok |-> TRUE,
              value |-> <<formatObjectId(gas[1].id), formatObjectId(oracle[1].id)>>,
              error |-> NoError]

\* variant: the gas coin taken is the last of the gas coins
getGasAndOracleLastGas(objs) ==
    LET gas == SelectSeq(objs, IsGasCoin)
        oracle == SelectSeq(objs, IsOracle)
    IN  IF gas = <<>> THEN [ok |-> FALSE, value |-> <<>>, error |-> TypeError]
        ELSE IF Len(oracle) # 1
             THEN [ok |-> FALSE, value |-> <<>>, error |-> OracleCountError]
        ELSE [ok |-> TRUE,
              value |-> <<formatObjectId(gas[Len(gas)].id), formatObjectId(oracle[1].id)>>,
              error |-> NoError]

\* variant: the oracle count is checked before the gas coin is selected
getGasAndOracleOracleFirst(objs) ==
    LET gas == SelectSeq(objs, IsGasCoin)
        oracle == SelectSeq(objs, IsOracle)
    IN  IF Len(oracle) # 1
        THEN [ok |-> FALSE, value |-> <<>>, error |-> OracleCountError]
        ELSE IF gas = <<>> THEN [ok |-> FALSE, value |-> <<>>, error |-> TypeError]
        ELSE [ok |-> TRUE,
              value |-> <<formatObjectId(gas[1].id), formatObjectId(oracle[1].id)>>,
              error |-> NoError]

\* getGasAndOracle on the list the connection returned: the pair
\* <<gasObjectId, oracleObjectId>>, or the error thrown.  filter(...)[0] of an
\* empty list is undefined, and reading .id of it throws a TypeError.
getGasAndOracle(objs) ==
    LET gas == SelectSeq(objs, IsGasCoin)
        oracle == SelectSeq(objs, IsOracle)
    IN  IF gas = <<>> THEN [ok |-> FALSE, value |-> <<>>, error |-> TypeError]
        ELSE IF Len(oracle) # 1
             THEN [ok |-> FALSE, value |-> <<>>, error |-> OracleCountError]
        ELSE [ok |-> TRUE,
              value |-> <<formatObjectId(gas[1].id), formatObjectId(oracle[1].id)>>,
              error |-> NoError]

\* ------------------------------------------------ invocation builder (pure)
\* variant: destination and source contract address change places
MoveCallArgsSwapped(oracleObjectId, info) ==
    << oracleObjectId,
       info.members["source_contract_address"],
       info.members["destination_sui_address"],
       ToNumber(info.members["source_token_id"]),
       name,
       tokenUri >>

MoveCallArgs(oracleObjectId, info) ==
    << oracleObjectId,
       info.members["destination_sui_address"],
       info.members["source_contract_address"],
       ToNumber(info.members["source_token_id"]),
       name,
       tokenUri >>

\* variant: the claimant's destination address is the sender
MoveCallRequestFromClaimant(authority, info) ==
    [ args            |-> MoveCallArgs(authority[2], info),
      function        |-> ORACLE_CONTRACT_ENTRY_FUNCTION,
      gasBudget       |-> DEFAULT_GAS_BUDGET,
      gasObjectId     |-> authority[1],
      module          |-> getPackageAndModule[2],
      packageObjectId |-> getPackageAndModule[1],
      sender          |-> info.members["destination_sui_address"] ]

MoveCallRequest(authority, info) ==
    [ args            |-> MoveCallArgs(authority[2], info),
      function        |-> ORACLE_CONTRACT_ENTRY_FUNCTION,
      gasBudget       |-> DEFAULT_GAS_BUDGET,
      gasObjectId     |-> authority[1],
      module          |-> getPackageAndModule[2],
      packageObjectId |-> getPackageAndModule[1],
      sender          |-> ORACLE_ADDRESS ]

\* variant: any non-empty list of created objects is accepted
CreatedCountAtLeastOne(created_objects) == Len(created_objects) >= 1

\* created.length !== 1 throws
CreatedCountOk(created_objects) == Len(created_objects) = 1

\* variant: the token id is echoed in the normalised form the number has
ClaimResponseNormalised(info) ==
    [ source_chain            |-> info.members["source_chain"],
      source_contract_address |-> info.members["source_contract_address"],
      source_token_id         |-> TrimRight(TrimLeft(info.members["source_token_id"])),
      sui_explorer_link       |-> HARDCODED_LINK ]

\* the DTO returned by claim()
ClaimResponse(info) ==
    [ source_chain            |-> info.members["source_chain"],
      source_contract_address |-> info.members["source_contract_address"],
      source_token_id         |-> info.members["source_token_id"],
      sui_explorer_link       |-> HARDCODED_LINK ]

\* ------------------------------------------------------------ input sets
TokenChars == {"0", "7", " ", "a", "-"}

TokenIds == UNION {[1..n -> TokenChars] : n \in 1..MaxTokenLen}

ValidInfo(tok) ==
    [ source_chain            |-> "ethereum",
      source_contract_address |-> "0xBC4C",
      source_token_id         |-> tok,
      source_owner_address    |-> "0x09db",
      destination_sui_address |-> "0xa5e6" ]

Without(info, key) == [k \in DOMAIN info \ {key} |-> info[k]]

Emptied(info, key) == [info EXCEPT ![key] = EmptyString(key)]

\* payloads found at the "message" key
ClaimPayloads ==
    {ValidInfo(tok) : tok \in TokenIds}
      \cup {Without(ValidInfo(<<"7">>), key) : key \in ClaimFields}
      \cup {Emptied(ValidInfo(<<"7">>), key) : key \in ClaimFields}

TypedData(payload) ==
    JSObject([primaryType |-> "ClaimRequest", message |-> JSObject(payload)])

WellFormed(value) == [wellFormed |-> TRUE, value |-> value]

Malformed == [wellFormed |-> FALSE, value |-> JSUndefined]

WalletMessages ==
    {WellFormed(TypedData(p)) : p \in ClaimPayloads}
      \cup { Malformed,
             WellFormed(JSNull),
             WellFormed(JSObject([primaryType |-> "ClaimRequest"])),
             WellFormed(JSObject([primaryType |-> "ClaimRequest", message |-> JSNull])) }

Envelopes == [wallet_message : WalletMessages, signature : {"abc"}]

\* the envelopes of the concurrent runs: the documented example request,
\* the same message under another signature, and an unparsable message
ExampleMessage == WellFormed(TypedData(ValidInfo(<<"8", "9", "3", "7">>)))

ConcurrentEnvelopes ==
    { [wallet_message |-> ExampleMessage, signature |-> "abc"],
      [wallet_message |-> ExampleMessage, signature |-> "xyz"],
      [wallet_message |-> Malformed, signature |-> "abc"] }

ObjTypes == {GAS_COIN_TYPE, oracle_object_identifier, "0x2::DevNetNFT::DevNetNFT"}

OwnedObject(i, type) == [id |-> "a" \o ToString(i), objType |-> type]

\* every list of at most MaxObjects objects the oracle account may own
OwnedLists ==
    UNION {{[i \in 1..n |-> OwnedObject(i, types[i])] : types \in [1..n -> ObjTypes]}
             : n \in 0..MaxObjects}

\* the example claim under another source_owner_address
OtherOwnerMessage ==
    WellFormed(TypedData([ValidInfo(<<"8", "9", "3", "7">>)
                            EXCEPT !["source_owner_address"] = "0x51ab"]))

\* envelopes that differ in signature, in source_owner_address, or in both
PairEnvelopes ==
    [wallet_message : {ExampleMessage, OtherOwnerMessage, Malformed},
     signature : {"abc", "xyz"}]

\* the envelopes of the runs checked for termination: one that parses and
\* one that does not
LiveEnvelopes ==
    { [wallet_message |-> ExampleMessage, signature |-> "abc"],
      [wallet_message |-> Malformed, signature |-> "abc"] }

\* the owned-object lists of the runs checked for termination
ShortOwnedLists == {l \in OwnedLists : Len(l) <= 2}

\* ----------------------------------------------------------------- state
VARIABLES
    pc,          \* where each claim() call stands
    envelope,    \* claimMessage, the argument of each call
    claimInfo,   \* the parsed AirdropClaimInfo
    objects,     \* what bulkFetchObjects returned to the call
    authority,   \* <<gasObjectId, oracleObjectId>>
    request,     \* the move-call request built
    calls,       \* the calls made on the call's Connection, in order
    result,      \* result.objectEffectsSummary.created_objects of the move call
    response,    \* the AirdropClaimResponse returned
    error,       \* the error claim() rejected with
    owned,       \* chain: the objects the oracle account owns
    minted,      \* chain: the number of objects created by committed move calls
    rejected     \* connection: the error a call of the claim was rejected with

vars ==
    << pc, envelope, claimInfo, objects, authority, request, calls, result,
       response, error, owned, minted, rejected >>

Range(f) == {f[i] : i \in DOMAIN f}

\* variant: a call identical to one already made by any claim is not repeated
IssueCallOnce(log, call) ==
    IF \E c \in Claims : call \in Range(calls[c]) THEN log ELSE Append(log, call)

\* a call recorded by the connection it was made on
IssueCall(log, call) == Append(log, call)

NoRequest == [built |-> FALSE]

NotAssigned == [assigned |-> FALSE, value |-> <<>>]

Assigned(v) == [assigned |-> TRUE, value |-> v]

NoResponse == [type |-> "undefined"]

Fresh(e) ==
    /\ envelope = e
    /\ claimInfo = [c \in Claims |-> JSUndefined]
    /\ objects = [c \in Claims |-> NotAssigned]
    /\ authority = [c \in Claims |-> <<>>]
    /\ request = [c \in Claims |-> NoRequest]
    /\ calls = [c \in Claims |-> <<>>]
    /\ result = [c \in Claims |-> NotAssigned]
    /\ response = [c \in Claims |-> NoResponse]
    /\ error = [c \in Claims |-> NoError]
    /\ minted = 0
    /\ rejected = [c \in Claims |-> NoError]

\* NumClaims calls of claim() in flight at once
Init ==
    /\ pc = [c \in Claims |-> "Received"]
    /\ \E e \in [Claims -> ConcurrentEnvelopes] : Fresh(e)
    /\ owned \in OwnedLists

\* one call of claim(), on any envelope
InitOne ==
    /\ pc = [c \in Claims |-> IF c = 1 THEN "Received" ELSE "Idle"]
    /\ \E e \in [Claims -> Envelopes] :
          /\ \A c \in Claims \ {1} : e[c] = [wallet_message |-> Malformed, signature |-> "abc"]
          /\ Fresh(e)
    /\ owned \in OwnedLists

\* variant: the error is recorded but the promise of claim() never settles
FailUnsettled(c, err) ==
    /\ error' = [error EXCEPT ![c] = err]
    /\ UNCHANGED pc

Fail(c, err) ==
    /\ pc' = [pc EXCEPT ![c] = "Failed"]
    /\ error' = [error EXCEPT ![c] = err]

\* variant: a signature other than the expected one is refused
ParseVerified(c) ==
    /\ pc[c] = "Received"
    /\ LET parsed == JSONParse(envelope[c].wallet_message)
           info == IF parsed.ok THEN parseClaimInfo(parsed.value) ELSE parsed
       IN  IF info.ok /\ envelope[c].signature = "abc"
           THEN /\ claimInfo' = [claimInfo EXCEPT ![c] = info.value]
                /\ pc' = [pc EXCEPT ![c] = "Parsed"]
                /\ UNCHANGED error
           ELSE /\ Fail(c, IF info.ok
                           THEN [kind |-> "AuthenticationError", message |-> "bad signature"]
                           ELSE info.error)
                /\ UNCHANGED claimInfo
    /\ UNCHANGED << envelope, objects, authority, request, calls, result,
                    response, owned, minted, rejected >>

\* claim, lines 89-91
Parse(c) ==
    /\ pc[c] = "Received"
    /\ LET parsed == JSONParse(envelope[c].wallet_message)
           info == IF parsed.ok THEN parseClaimInfo(parsed.value) ELSE parsed
       IN  IF info.ok
           THEN /\ claimInfo' = [claimInfo EXCEPT ![c] = info.value]
                /\ pc' = [pc EXCEPT ![c] = "Parsed"]
                /\ UNCHANGED error
           ELSE /\ Fail(c, info.error)
                /\ UNCHANGED claimInfo
    /\ UNCHANGED << envelope, objects, authority, request, calls, result,
                    response, owned, minted, rejected >>

\* claim lines 93-96, executeMoveCall 121-125, getGasAndOracle 169: the query
\* is sent and the call waits
BulkFetchObjects(c) ==
    /\ pc[c] = "Parsed"
    /\ calls' = [calls EXCEPT
                   ![c] = IssueCall(@, [op |-> "bulkFetchObjects", address |-> ORACLE_ADDRESS])]
    /\ pc' = [pc EXCEPT ![c] = "Resolving"]
    /\ UNCHANGED << envelope, claimInfo, objects, authority, request, result,
                    response, error, owned, minted, rejected >>

\* the query is answered; getGasAndOracle lines 170-187
GetGasAndOracle(c) ==
    /\ pc[c] = "Resolving"
    /\ objects' = [objects EXCEPT ![c] = Assigned(owned)]
    /\ LET resolved == getGasAndOracle(owned)
       IN  IF resolved.ok
           THEN /\ authority' = [authority EXCEPT ![c] = resolved.value]
                /\ pc' = [pc EXCEPT ![c] = "AuthorityResolved"]
                /\ UNCHANGED error
           ELSE /\ Fail(c, resolved.error)
                /\ UNCHANGED authority
    /\ UNCHANGED << envelope, claimInfo, request, calls, result, response,
                    owned, minted, rejected >>

\* variant: a rejected query is sent again
BulkFetchRetried(c) ==
    /\ pc[c] = "Resolving"
    /\ pc' = [pc EXCEPT ![c] = "Parsed"]
    /\ UNCHANGED << envelope, claimInfo, objects, authority, request, calls,
                    result, response, error, owned, minted, rejected >>

\* variant: the rejection is caught and rethrown as a new Error
BulkFetchFailsWrapped(c) ==
    /\ pc[c] = "Resolving"
    /\ \E e \in ConnectionErrors :
          /\ rejected' = [rejected EXCEPT ![c] = e]
          /\ Fail(c, [kind |-> "Error", message |-> e.message])
    /\ UNCHANGED << envelope, claimInfo, objects, authority, request, calls,
                    result, response, owned, minted >>

\* the connection rejects the query; nothing catches the rejection
BulkFetchFails(c) ==
    /\ pc[c] = "Resolving"
    /\ \E e \in ConnectionErrors :
          /\ rejected' = [rejected EXCEPT ![c] = e]
          /\ Fail(c, e)
    /\ UNCHANGED << envelope, claimInfo, objects, authority, request, calls,
                    result, response, owned, minted >>

\* executeMoveCall lines 126-155
BuildRequest(c) ==
    /\ pc[c] = "AuthorityResolved"
    /\ request' = [request EXCEPT ![c] = MoveCallRequest(authority[c], claimInfo[c])]
    /\ pc' = [pc EXCEPT ![c] = "InvocationBuilt"]
    /\ UNCHANGED << envelope, claimInfo, objects, authority, calls, result,
                    response, error, owned, minted, rejected >>

\* executeMoveCall line 156: the request is sent and the call waits
CallMoveFunction(c) ==
    /\ pc[c] = "InvocationBuilt"
    /\ calls' = [calls EXCEPT
                   ![c] = IssueCall(@, [op |-> "callMoveFunction", request |-> request[c]])]
    /\ pc' = [pc EXCEPT ![c] = "Submitted"]
    /\ UNCHANGED << envelope, claimInfo, objects, authority, request, result,
                    response, error, owned, minted, rejected >>

\* the ids the chain gives the k objects a committed move call creates
CreatedObjects(k) == [i \in 1..k |-> [id |-> "c" \o ToString(minted + i)]]

\* variant: a move call whose created count is rejected is rolled back
MoveCallReturnsRolledBack(c) ==
    /\ pc[c] = "Submitted"
    /\ \E k \in 0..MaxCreated :
          /\ result' = [result EXCEPT ![c] = Assigned(CreatedObjects(k))]
          /\ IF CreatedCountOk(CreatedObjects(k))
             THEN /\ minted' = minted + k
                  /\ response' = [response EXCEPT ![c] = ClaimResponse(claimInfo[c])]
                  /\ pc' = [pc EXCEPT ![c] = "Succeeded"]
                  /\ UNCHANGED error
             ELSE /\ minted' = minted
                  /\ Fail(c, CreatedCountError)
                  /\ UNCHANGED response
    /\ UNCHANGED << envelope, claimInfo, objects, authority, request, calls, owned, rejected >>

\* the chain commits the move call and reports k created objects;
\* executeMoveCall lines 157-162, claim lines 97-103
MoveCallReturns(c) ==
    /\ pc[c] = "Submitted"
    /\ \E k \in 0..MaxCreated :
          /\ result' = [result EXCEPT ![c] = Assigned(CreatedObjects(k))]
          /\ minted' = minted + k
          /\ IF CreatedCountOk(CreatedObjects(k))
             THEN /\ response' = [response EXCEPT ![c] = ClaimResponse(claimInfo[c])]
                  /\ pc' = [pc EXCEPT ![c] = "Succeeded"]
                  /\ UNCHANGED error
             ELSE /\ Fail(c, CreatedCountError)
                  /\ UNCHANGED response
    /\ UNCHANGED << envelope, claimInfo, objects, authority, request, calls, owned, rejected >>

\* variant: a rejected move call is submitted again
MoveCallRetried(c) ==
    /\ pc[c] = "Submitted"
    /\ pc' = [pc EXCEPT ![c] = "InvocationBuilt"]
    /\ UNCHANGED << envelope, claimInfo, objects, authority, request, calls,
                    result, response, error, owned, minted, rejected >>

\* the connection rejects the move call; nothing catches the rejection
MoveCallFails(c) ==
    /\ pc[c] = "Submitted"
    /\ \E e \in ConnectionErrors :
          /\ rejected' = [rejected EXCEPT ![c] = e]
          /\ Fail(c, e)
    /\ UNCHANGED << envelope, claimInfo, objects, authority, request, calls,
                    result, response, owned, minted >>

Next ==
    \/ \E c \in Claims : Parse(c)
    \/ \E c \in Claims : BulkFetchObjects(c)
    \/ \E c \in Claims : GetGasAndOracle(c)
    \/ \E c \in Claims : BulkFetchFails(c)
    \/ \E c \in Claims : BuildRequest(c)
    \/ \E c \in Claims : CallMoveFunction(c)
    \/ \E c \in Claims : MoveCallReturns(c)
    \/ \E c \in Claims : MoveCallFails(c)

Spec == Init /\ [][Next]_vars

SpecOne == InitOne /\ [][Next]_vars

\* two calls of claim() in flight, on envelopes of PairEnvelopes
InitPair ==
    /\ pc = [c \in Claims |-> IF c <= 2 THEN "Received" ELSE "Idle"]
    /\ \E e \in [Claims -> PairEnvelopes] :
          /\ \A c \in Claims : c > 2 => e[c] = [wallet_message |-> Malformed, signature |-> "abc"]
          /\ Fresh(e)
    /\ owned \in OwnedLists

SpecPair == InitPair /\ [][Next]_vars

\* NumClaims calls in flight on an account that owns at most two objects
InitLive ==
    /\ pc = [c \in Claims |-> "Received"]
    /\ \E e \in [Claims -> LiveEnvelopes] : Fresh(e)
    /\ owned \in ShortOwnedLists

\* the event loop runs every continuation that is ready, and every round
\* trip on the connection ends, with an answer or with a rejection
\* (a claim has one position, so at most one group of its steps is enabled)
ClaimStep(c) ==
    \/ Parse(c)
    \/ BulkFetchObjects(c)
    \/ GetGasAndOracle(c) \/ BulkFetchFails(c)
    \/ BuildRequest(c)
    \/ CallMoveFunction(c)
    \/ MoveCallReturns(c) \/ MoveCallFails(c)

Fairness == \A c \in Claims : WF_vars(ClaimStep(c))

FairSpec == InitLive /\ [][Next]_vars /\ Fairness

\* ================================================================ claims
\* what the request envelope of claim c carries
Payload(c) == MessageOf(JSONParse(envelope[c].wallet_message).value)

Deserializable(c) == JSONParse(envelope[c].wallet_message).ok

Started(c) == pc[c] \notin {"Idle", "Received"}

IsQuery(call) == call.op = "bulkFetchObjects"

IsMoveCall(call) == call.op = "callMoveFunction"

Queries(c) == SelectSeq(calls[c], IsQuery)

MoveCalls(c) == SelectSeq(calls[c], IsMoveCall)

\* C1: an envelope whose deserialized payload lacks any of the five claim
\* fields (or lacks the message payload itself) makes claim() fail with a
\* ValidationError, without any call on the chain connection.
C1_MissingFieldIsValidationError ==
    \A c \in Claims :
        (Started(c) /\ Deserializable(c) /\ ~ isAirdropClaimInfo(Payload(c)))
            => /\ pc[c] = "Failed"
               /\ error[c].kind = "ValidateError"
               /\ calls[c] = <<>>

\* C2: no invocation is built or submitted for a source_token_id that is
\* not the decimal representation of a non-negative integer.
C2_NonDecimalTokenIdRejected ==
    \A c \in Claims :
        (request[c] # NoRequest \/ MoveCalls(c) # <<>>)
            => AllDigits(Payload(c).members["source_token_id"])

\* C10: a wallet_message that cannot be deserialized makes claim() fail with
\* a ValidationError, the error kind of a missing field, without any call on
\* the chain connection.
C10_MalformedIsValidationError ==
    \A c \in Claims :
        (Started(c) /\ ~ Deserializable(c))
            => /\ pc[c] = "Failed"
               /\ error[c].kind = ValidateError.kind
               /\ calls[c] = <<>>

OracleCount(objs) == Len(SelectSeq(objs, IsOracle))

GasCount(objs) == Len(SelectSeq(objs, IsGasCoin))

C4_CreatedCountChecked ==
    \A c \in Claims :
        /\ response[c] # NoResponse =>
              result[c].assigned /\ Len(result[c].value) = 1
        /\ (result[c].assigned /\ Len(result[c].value) # 1) =>
              /\ pc[c] = "Failed"
              /\ error[c] = CreatedCountError
              /\ response[c] = NoResponse

\* C4 witness: a move call that reported two created objects
C4_TwoCreatedRejected ==
    \E c \in Claims :
        result[c].assigned /\ Len(result[c].value) = 2 /\ pc[c] = "Failed"

\* C5: the explorer link of a successful claim comes from the object that
\* claim's submission created, so claims that created different objects
\* have different links.
C5_LinkNamesCreatedObject ==
    \A c1, c2 \in Claims :
        (/\ pc[c1] = "Succeeded"
         /\ pc[c2] = "Succeeded"
         /\ result[c1].value[1].id # result[c2].value[1].id)
            => response[c1].sui_explorer_link # response[c2].sui_explorer_link

\* C6: the response of a successful claim echoes source_chain,
\* source_contract_address and source_token_id exactly as the payload of the
\* request envelope carries them, the token id as the original string.
C6_ResponseEchoesClaim ==
    \A c \in Claims :
        response[c] # NoResponse =>
            /\ pc[c] = "Succeeded"
            /\ response[c].source_chain = Payload(c).members["source_chain"]
            /\ response[c].source_contract_address
                  = Payload(c).members["source_contract_address"]
            /\ response[c].source_token_id = Payload(c).members["source_token_id"]

\* C6 witness: a successful claim whose token id is not in normal form
C6_PaddedTokenIdEchoed ==
    \E c \in Claims :
        /\ pc[c] = "Succeeded"
        /\ response[c] # NoResponse
        /\ Payload(c).members["source_token_id"] = <<" ", "7">>

\* C7: every submitted invocation has the arguments <<oracle object id,
\* destination address, source contract address, token id as number,
\* collection name, token URI>> in that order; the oracle object id is the
\* 0x-prefixed id of the oracle object the claim's query returned and the
\* claim-derived arguments are those of the claim's own envelope.
C7_ArgumentOrder ==
    \A c \in Claims :
        \A i \in DOMAIN calls[c] :
            IsMoveCall(calls[c][i]) =>
                LET args == calls[c][i].request.args
                    tok == Payload(c).members["source_token_id"]
                IN  /\ Len(args) = 6
                    /\ objects[c].assigned
                    /\ \E j \in DOMAIN objects[c].value :
                          /\ IsOracle(objects[c].value[j])
                          /\ args[1] = "0x" \o objects[c].value[j].id
                    /\ args[2] = Payload(c).members["destination_sui_address"]
                    /\ args[3] = Payload(c).members["source_contract_address"]
                    /\ args[4] = ToNumber(tok)
                    /\ AllDigits(tok) => args[4] = Num(DecimalValue(tok))
                    /\ args[5] = "BoredApeYachtClub"
                    /\ args[6] = "ipfs://abc"

\* C7 witness: an invocation for token id 70 was submitted
C7_InvocationSubmitted ==
    \E c \in Claims :
        /\ MoveCalls(c) # <<>>
        /\ Payload(c).members["source_token_id"] = <<"7", "0">>
        /\ MoveCalls(c)[1].request.args[4] = Num(70)

\* the stage of the spec's state machine a position belongs to: while the
\* query is outstanding the claim is still Parsed
Stage(p) == IF p = "Resolving" THEN "Parsed" ELSE p

StageSteps ==
    { <<"Received", "Parsed">>, <<"Parsed", "AuthorityResolved">>,
      <<"AuthorityResolved", "InvocationBuilt">>, <<"InvocationBuilt", "Submitted">>,
      <<"Submitted", "Succeeded">> }
      \cup {<<st, "Failed">> :
              st \in {"Received", "Parsed", "AuthorityResolved", "InvocationBuilt",
                      "Submitted"}}

\* C8: a claim moves Received, Parsed, AuthorityResolved, InvocationBuilt,
\* Submitted, then Succeeded or Failed, in that order, nothing skipped or
\* revisited; the query is sent once, from Parsed with a parsed claim, the
\* move call is sent only on the step from InvocationBuilt to Submitted with
\* resolved authority, and a finished claim does nothing more.
C8_StagesInOrder ==
    [][\A c \in Claims :
          /\ Stage(pc'[c]) # Stage(pc[c]) => <<Stage(pc[c]), Stage(pc'[c])>> \in StageSteps
          /\ pc'[c] # pc[c] => pc[c] # "Resolving" \/ pc'[c] # "Parsed"
          /\ calls'[c] # calls[c] =>
                /\ Len(calls'[c]) = Len(calls[c]) + 1
                /\ SubSeq(calls'[c], 1, Len(calls[c])) = calls[c]
                /\ LET call == calls'[c][Len(calls'[c])] IN
                   IF IsQuery(call)
                   THEN pc[c] = "Parsed" /\ pc'[c] = "Resolving" /\ claimInfo[c] # JSUndefined
                   ELSE /\ pc[c] = "InvocationBuilt" /\ pc'[c] = "Submitted"
                        /\ authority[c] # <<>>
                        /\ Queries(c) # <<>>
          /\ pc[c] \in {"Succeeded", "Failed"} =>
                /\ pc'[c] = pc[c]
                /\ calls'[c] = calls[c]
                /\ response'[c] = response[c]
                /\ error'[c] = error[c]
      ]_vars

\* C8 witness: a claim that went through every stage and succeeded
C8_AllStagesPassed ==
    \E c \in Claims :
        /\ pc[c] = "Succeeded"
        /\ Len(calls[c]) = 2
        /\ IsQuery(calls[c][1])
        /\ IsMoveCall(calls[c][2])

PastQuery(c) ==
    \/ pc[c] \in {"Resolving", "AuthorityResolved", "InvocationBuilt", "Submitted", "Succeeded"}
    \/ pc[c] = "Failed" /\ (objects[c].assigned \/ error[c] \in ConnectionErrors)

PastSubmission(c) ==
    \/ pc[c] \in {"Submitted", "Succeeded"}
    \/ pc[c] = "Failed" /\ request[c] # NoRequest

\* C9: claims are not deduplicated: every claim that got as far as the
\* query has sent its own query, and every claim that got as far as the
\* submission has sent its own move call, whatever the other claims carry
\* or have done; two claims of one envelope make two of each.
C9_NoDeduplication ==
    /\ \A c \in Claims :
          /\ Len(Queries(c)) = (IF PastQuery(c) THEN 1 ELSE 0)
          /\ Len(MoveCalls(c)) = (IF PastSubmission(c) THEN 1 ELSE 0)
    /\ \A c1, c2 \in Claims :
          (/\ c1 # c2
           /\ envelope[c1] = envelope[c2]
           /\ pc[c1] = "Succeeded"
           /\ pc[c2] = "Succeeded")
              => /\ Len(Queries(c1)) + Len(Queries(c2)) = 2
                 /\ Len(MoveCalls(c1)) + Len(MoveCalls(c2)) = 2

\* C9 witness: the same envelope claimed twice, both claims successful
C9_SameEnvelopeTwice ==
    \E c1, c2 \in Claims :
        /\ c1 # c2
        /\ envelope[c1] = envelope[c2]
        /\ pc[c1] = "Succeeded"
        /\ pc[c2] = "Succeeded"
        /\ MoveCalls(c1) = MoveCalls(c2)

\* C11: when the oracle account owns no gas coin, the resolver fails with
\* a not-found error, which is not the error of a non-singleton oracle
\* object, and no move call is submitted.
C11_NoGasIsNotFoundError ==
    \A c \in Claims :
        (objects[c].assigned /\ GasCount(objects[c].value) = 0)
            => /\ pc[c] = "Failed"
               /\ error[c].kind = "NotFoundError"
               /\ error[c] # OracleCountError
               /\ MoveCalls(c) = <<>>

\* C12: the sender of every submitted invocation is the configured oracle
\* account, the account whose objects the claim queried, never an address
\* of the claim; the paying gas object and the oracle argument are objects
\* that query returned.
C12_SenderIsOracleAccount ==
    \A c \in Claims :
        \A i \in DOMAIN calls[c] :
            IsMoveCall(calls[c][i]) =>
                LET req == calls[c][i].request IN
                /\ req.sender = ORACLE_ADDRESS
                /\ Queries(c) # <<>> /\ req.sender = Queries(c)[1].address
                /\ req.sender # Payload(c).members["destination_sui_address"]
                /\ req.sender # Payload(c).members["source_owner_address"]
                /\ objects[c].assigned
                /\ \E j \in DOMAIN objects[c].value :
                      /\ IsGasCoin(objects[c].value[j])
                      /\ req.gasObjectId = "0x" \o objects[c].value[j].id
                /\ \E j \in DOMAIN objects[c].value :
                      /\ IsOracle(objects[c].value[j])
                      /\ req.args[1] = "0x" \o objects[c].value[j].id

\* C12 witness: an invocation submitted for an account that owns three objects
C12_SubmittedByOracle ==
    \E c \in Claims :
        /\ MoveCalls(c) # <<>>
        /\ Len(objects[c].value) = 3
        /\ MoveCalls(c)[1].request.sender = "oracle_account"

\* C14: one claim issues at most one owned-objects query and at most one
\* move call, whatever they return, and none after it has failed; a claim
\* that fails before the submission issues no move call.
C14_AtMostOneCallEach ==
    \A c \in Claims :
        /\ Len(Queries(c)) <= 1
        /\ Len(MoveCalls(c)) <= 1
        /\ (pc[c] = "Failed" /\ ~ result[c].assigned /\ request[c] = NoRequest)
              => MoveCalls(c) = <<>>
        /\ (pc[c] = "Failed" /\ claimInfo[c] = JSUndefined) => calls[c] = <<>>

\* C14 witness: a claim whose only move call was rejected by the connection
C14_RejectedMoveCallNotRepeated ==
    \E c \in Claims :
        /\ pc[c] = "Failed"
        /\ request[c] # NoRequest
        /\ ~ result[c].assigned
        /\ Len(MoveCalls(c)) = 1

FirstGasCoin(objs) == SelectSeq(objs, IsGasCoin)[1]

\* C15: nothing coordinates the claims in flight: every claim that resolves
\* takes the first gas coin the oracle account owns, whatever the other
\* claims hold, so any two resolved claims pay with the same gas object.
C15_SameGasObject ==
    \A c1, c2 \in Claims :
        (authority[c1] # <<>> /\ authority[c2] # <<>>)
            => /\ authority[c1][1] = "0x" \o FirstGasCoin(owned).id
               /\ authority[c1][1] = authority[c2][1]
               /\ (request[c1] # NoRequest /\ request[c2] # NoRequest)
                     => request[c1].gasObjectId = request[c2].gasObjectId

\* C15 witness: two move calls outstanding at once, paid with one gas object
C15_BothSubmittedWithSameGas ==
    \E c1, c2 \in Claims :
        /\ c1 # c2
        /\ pc[c1] = "Submitted"
        /\ pc[c2] = "Submitted"
        /\ GasCount(owned) = 2
        /\ MoveCalls(c1)[1].request.gasObjectId = MoveCalls(c2)[1].request.gasObjectId

RECURSIVE CreatedBy(_)
CreatedBy(cs) ==
    IF cs = {} THEN 0
    ELSE LET c == CHOOSE x \in cs : TRUE
         IN  Len(result[c].value) + CreatedBy(cs \ {c})

\* C16: a claim whose committed move call reported a created count other
\* than one has failed although its objects exist on the chain: what the
\* chain created stays created and the claim makes no further call.
C16_FailedAfterCommit ==
    /\ minted = CreatedBy(Claims)
    /\ \A c \in Claims :
          (result[c].assigned /\ Len(result[c].value) # 1)
              => /\ pc[c] = "Failed"
                 /\ error[c] = CreatedCountError
                 /\ Len(MoveCalls(c)) = 1
                 /\ Len(calls[c]) = 2

\* C16 witness: a failed claim whose move call created two objects
C16_FailedWithObjectsCreated ==
    \E c \in Claims :
        /\ pc[c] = "Failed"
        /\ MoveCalls(c) # <<>>
        /\ Len(result[c].value) = 2
        /\ minted >= 2

\* C19: the gas coin is selected before the oracle count is checked: with
\* no gas coin the resolver fails at the gas step whatever the number of
\* oracle objects, and the oracle-count error is raised only for lists
\* that hold a gas coin.
C19_GasStepFirst ==
    \A c \in Claims :
        /\ (objects[c].assigned /\ GasCount(objects[c].value) = 0)
              => /\ pc[c] = "Failed"
                 /\ error[c] = TypeError
        /\ error[c] = OracleCountError
              => /\ objects[c].assigned
                 /\ GasCount(objects[c].value) >= 1
                 /\ OracleCount(objects[c].value) # 1

\* C19 witness: a list of two oracle objects and no gas coin was resolved
C19_NoGasTwoOracles ==
    \E c \in Claims :
        /\ objects[c].assigned
        /\ GasCount(objects[c].value) = 0
        /\ OracleCount(objects[c].value) = 2
        /\ pc[c] = "Failed"

\* C17: an error the connection raises during the query or the submission
\* is the error claim() rejects with, unchanged; the claim gives no response
\* and the rejected call is the last call it makes.
C17_ConnectionErrorPropagates ==
    \A c \in Claims :
        rejected[c] # NoError =>
            /\ pc[c] = "Failed"
            /\ error[c] = rejected[c]
            /\ response[c] = NoResponse
            /\ ~ result[c].assigned
            /\ IF objects[c].assigned
               THEN Len(calls[c]) = 2 /\ IsMoveCall(calls[c][2])
               ELSE Len(calls[c]) = 1 /\ IsQuery(calls[c][1])

\* C17 witness: a submission that timed out
C17_SubmissionTimedOut ==
    \E c \in Claims :
        /\ rejected[c] = TimeoutError
        /\ objects[c].assigned
        /\ pc[c] = "Failed"

\* the claims of c1 and c2 differ at most in signature and source owner
SameClaim(c1, c2) ==
    \/ envelope[c1].wallet_message = envelope[c2].wallet_message
    \/ /\ Deserializable(c1) /\ isAirdropClaimInfo(Payload(c1))
       /\ Deserializable(c2) /\ isAirdropClaimInfo(Payload(c2))
       /\ \A f \in ClaimFields \ {"source_owner_address"} :
             Payload(c1).members[f] = Payload(c2).members[f]

\* C13: neither the signature nor the source owner address is checked: two
\* claims that differ only in them parse alike, make the same calls with
\* the same parameters, and end alike whenever the chain answered alike.
C13_SignatureAndOwnerIgnored ==
    \A c1, c2 \in Claims :
        (c1 # c2 /\ pc[c1] # "Idle" /\ pc[c2] # "Idle" /\ SameClaim(c1, c2)) =>
            /\ (Started(c1) /\ Started(c2)) =>
                  /\ (claimInfo[c1] = JSUndefined) <=> (claimInfo[c2] = JSUndefined)
                  /\ claimInfo[c1] = JSUndefined => error[c1] = error[c2]
            /\ \A i \in DOMAIN calls[c1] \cap DOMAIN calls[c2] : calls[c1][i] = calls[c2][i]
            /\ (objects[c1].assigned /\ objects[c2].assigned) =>
                  /\ authority[c1] = authority[c2]
                  /\ authority[c1] = <<>> => (pc[c1] = pc[c2] /\ error[c1] = error[c2])
            /\ (request[c1] # NoRequest /\ request[c2] # NoRequest) => request[c1] = request[c2]
            /\ (/\ result[c1].assigned
                /\ result[c2].assigned
                /\ Len(result[c1].value) = Len(result[c2].value)) =>
                  /\ pc[c1] = pc[c2]
                  /\ error[c1] = error[c2]
                  /\ (response[c1] = NoResponse) <=> (response[c2] = NoResponse)
                  /\ response[c1] # NoResponse =>
                        /\ response[c1].source_chain = response[c2].source_chain
                        /\ response[c1].source_contract_address
                              = response[c2].source_contract_address
                        /\ response[c1].source_token_id = response[c2].source_token_id
            /\ (/\ rejected[c1] # NoError
                /\ rejected[c1] = rejected[c2]
                /\ Len(calls[c1]) = Len(calls[c2])) =>
                  pc[c1] = pc[c2] /\ error[c1] = error[c2]

\* C13 witness: two successful claims of one NFT under different signatures
\* and different source owner addresses
C13_OtherSignatureAndOwnerSucceed ==
    \E c1, c2 \in Claims :
        /\ pc[c1] = "Succeeded"
        /\ pc[c2] = "Succeeded"
        /\ envelope[c1].signature # envelope[c2].signature
        /\ Payload(c1).members["source_owner_address"]
              # Payload(c2).members["source_owner_address"]
        /\ calls[c1] = calls[c2]

\* C18: with every round trip ending, every claim received ends Succeeded
\* or Failed, however many claims are in flight.
C18_EveryClaimEnds ==
    \A c \in Claims : (pc[c] = "Received") ~> (pc[c] \in {"Succeeded", "Failed"})

\* C18 witness: one claim has ended while another is still waiting for the chain
C18_OneEndedOneWaiting ==
    \E c1, c2 \in Claims :
        /\ pc[c1] \in {"Succeeded", "Failed"}
        /\ calls[c1] # <<>>
        /\ pc[c2] \in {"Resolving", "Submitted"}

====
